---- MODULE Spec2Model ----
(***************************************************************************)
(* Model of src/py-client/client.py: MCPClientAgent, an interactive agent  *)
(* that relays user queries to an LLM chat endpoint, executes the tool     *)
(* calls the LLM requests against an MCP tool provider and keeps the       *)
(* conversation transcript (self.history).                                 *)
(*                                                                         *)
(* Text is modelled as a sequence of one-character strings so that         *)
(* str.lower, str.strip, json.loads and json.dumps are computed.           *)
(* A step of the model is the code between two suspension points           *)
(* (input(), await of the LLM, await of call_tool, await of the provider   *)
(* connection).                                                            *)
(***************************************************************************)
EXTENDS Integers, Sequences, FiniteSets, TLC

\* ------------------------------------------------------------------ bounds
\* number of LLM requests made in one session (over all its queries)
MaxRequests == 3
\* number of tool-call requests in one LLM response
MaxCalls == 2

\* ------------------------------------------------------------ Python values
\* Python's None; no text of the model is equal to it (texts are sequences
\* of one-character strings)
None == <<"None">>

MODEL_NAME == <<"g", "p", "t">>

\* the fixed instruction of initialize (abbreviated)
system_prompt == <<"Y", "o", "u">>

\* ------------------------------------------------------------- str methods
Whitespace == {" ", "\t"}

UpperChars == <<"E", "X", "I", "T", "Q", "U", "H">>
LowerChars == <<"e", "x", "i", "t", "q", "u", "h">>

\* the lower-case form of one character
LowerChar(c) ==
  IF \E i \in 1..Len(UpperChars) : UpperChars[i] = c
  THEN LowerChars[CHOOSE i \in 1..Len(UpperChars) : UpperChars[i] = c]
  ELSE c

\* str.lower()
lowerNoop(s) == s

lower(s) == [i \in 1..Len(s) |-> LowerChar(s[i])]

\* str.strip(): removes leading and trailing whitespace
stripNoop(s) == s

strip(s) ==
  LET keep == {i \in 1..Len(s) : s[i] \notin Whitespace}
  IN IF keep = {} THEN <<>>
     ELSE SubSeq(s, CHOOSE i \in keep : \A j \in keep : i <= j,
                    CHOOSE i \in keep : \A j \in keep : j <= i)

\* the list ['exit', 'quit'] of run_interactive_session
ExitCommands == {<<"e", "x", "i", "t">>, <<"q", "u", "i", "t">>}

\* the lines the operator types
Lines ==
  { <<>>,
    <<" ">>,
    <<"\t", " ">>,
    <<"e", "x", "i", "t">>,
    <<"E", "x", "I", "T">>,
    <<"Q", "U", "I", "T">>,
    <<" ", "e", "x", "i", "t">>,
    <<" ", "h", "i", " ">> }

\* -------------------------------------------------------------------- JSON
DigitChars == <<"0", "1", "2", "3", "4", "5", "6", "7", "8", "9">>

IsDigit(c) == \E d \in 1..10 : DigitChars[d] = c

DigitValue(c) == (CHOOSE d \in 1..10 : DigitChars[d] = c) - 1

\* values a tool returns: a number, a string, or an object json cannot
\* serialize (bytes)
JNum(n) == [t |-> "num", n |-> n, s |-> <<>>]
JStr(s) == [t |-> "str", n |-> 0, s |-> s]
JBytes == [t |-> "bytes", n |-> 0, s |-> <<>>]

RECURSIVE DumpsNat(_)
DumpsNat(n) ==
  IF n < 10 THEN <<DigitChars[n + 1]>>
  ELSE DumpsNat(n \div 10) \o <<DigitChars[(n % 10) + 1]>>

\* json.dumps(v): ok = FALSE when it raises TypeError
json_dumps(v) ==
  CASE v.t = "num" -> [ok |-> TRUE, text |-> DumpsNat(v.n)]
    [] v.t = "str" -> [ok |-> TRUE, text |-> <<"\"">> \o v.s \o <<"\"">>]
    [] OTHER -> [ok |-> FALSE, text |-> None]

\* json.loads(text) on the argument texts of the model: an object with one
\* one-character key and a one-digit value, a bare digit, or malformed text
\* (ok = FALSE: json.JSONDecodeError)
json_loads(text) ==
  IF /\ Len(text) = 7
     /\ text[1] = "{" /\ text[2] = "\"" /\ text[4] = "\"" /\ text[5] = ":"
     /\ IsDigit(text[6]) /\ text[7] = "}"
  THEN [ok |-> TRUE, isDict |-> TRUE, key |-> text[3], n |-> DigitValue(text[6])]
  ELSE IF Len(text) = 1 /\ IsDigit(text[1])
       THEN [ok |-> TRUE, isDict |-> FALSE, key |-> "", n |-> DigitValue(text[1])]
       ELSE [ok |-> FALSE, isDict |-> FALSE, key |-> "", n |-> 0]

\* lines 102-110: the arguments parse and can be passed as **function_args
\* (a parsed value that is not a dict makes the call raise TypeError)
ArgsAccepted(tool_call) ==
  LET parsed == json_loads(tool_call.function.arguments)
  IN parsed.ok /\ parsed.isDict

\* ------------------------------------------------- what the LLM may answer
ValidArgs == <<"{", "\"", "q", "\"", ":", "1", "}">>
MalformedArgs == <<"{", "q">>
NonDictArgs == <<"5">>

ArgumentTexts == {ValidArgs, MalformedArgs, NonDictArgs}

ToolCall(id, arguments) ==
  [id |-> id, function |-> [name |-> "search_docs", arguments |-> arguments]]

\* the identifiers of the requests of one response, in response order
IdLists ==
  { <<"call_a">>,
    <<"call_a", "call_b">>,
    <<"call_b", "call_a">>,
    <<"call_c", "call_a", "call_b">> }

ToolCallLists ==
  UNION { { [i \in 1..Len(ids) |-> ToolCall(ids[i], args[i])] :
              args \in [1..Len(ids) -> ArgumentTexts] } :
          ids \in {l \in IdLists : Len(l) <= MaxCalls} }

AnswerTexts == {<<"X", " ", "i", "s">>}

\* a chat completion message
AssistantMessage(content, tool_calls) ==
  [role |-> "assistant", content |-> content, tool_calls |-> tool_calls]

\* ------------------------------------------- what the tool provider returns
\* call_tool returns a Message envelope (isMessage) around the payload, or
\* the payload itself
ToolOutputs ==
  [isMessage : BOOLEAN, payload : {JNum(42), JStr(<<"d">>), JBytes}]

\* lines 114-117
Unwrap(tool_output) == tool_output.payload

\* session.tools() of the provider: the tools the server registered
ProviderCatalogs ==
  { << [name |-> "search_docs", json_schema |-> [title |-> "search_docs"]],
       [name |-> "get_doc", json_schema |-> [title |-> "get_doc"]] >> }

\* line 61: the schemas of the provider's tools, in the provider's order
FetchCatalog(tools) == [i \in 1..Len(tools) |-> tools[i].json_schema]

\* ------------------------------------------------------------------- state
VARIABLES
  pc,                   \* where the session is: "start", "connected", "input",
                        \* "line", "llm", "tool", "done"
  history,              \* self.history, the transcript
  tool_definitions,     \* self.tool_definitions (None before initialize sets it)
  conn,                 \* the provider connection entered on self.exit_stack:
                        \* "absent", "open" or "closed"
  acloseCount,          \* calls of self.exit_stack.aclose()
  releaseCount,         \* times the provider connection was closed
  fetchCount,           \* calls of self.session.tools()
  user_input,           \* the line input() returned
  console,              \* the final answer printed last
  llmRequest,           \* the arguments of the last chat.completions.create
  llmInFlight,          \* an LLM request is awaited
  llmTotal,             \* LLM requests made in the session
  llmCount,             \* LLM requests made for the current query
  respCount,            \* LLM responses received for the current query
  rounds,               \* tool-call rounds appended for the current query
  preHistory,           \* the transcript when the current query was submitted
  outcome,              \* how the last query ended, "none" while it runs
  ret,                  \* what process_user_query returned
  response_message,     \* the local response_message
  callIdx,              \* position of the for loop over tool_calls
  tool_calls_to_append, \* the local list of results
  toolInFlight,         \* positions of the requests whose call_tool is awaited
  invoked,              \* positions of the requests invoked in this turn, in order
  returned,             \* what call_tool returned in this turn, in order
  turnBase,             \* length of the transcript before the last round was appended
  responses,            \* the LLM responses of the running or last completed
                        \* query, in order (empty after a failed query)
  failedAt              \* position of the tool-call request at which the last
                        \* query failed, 0 if none did

vars ==
  <<pc, history, tool_definitions, conn, acloseCount, releaseCount,
    fetchCount, user_input, console, llmRequest, llmInFlight, llmTotal,
    llmCount, respCount, rounds, preHistory, outcome, ret, response_message,
    callIdx, tool_calls_to_append, toolInFlight, invoked, returned, turnBase,
    responses, failedAt>>

sessionVars == <<tool_definitions, conn, acloseCount, releaseCount, fetchCount>>
queryVars ==
  <<llmCount, respCount, rounds, preHistory, outcome, ret, responses, failedAt>>
turnVars ==
  <<response_message, callIdx, tool_calls_to_append, toolInFlight, invoked,
    returned, turnBase>>

NoMessage == [role |-> "none", content |-> None, tool_calls |-> <<>>]
NoRequest == [model |-> None, messages |-> <<>>, tools |-> None, tool_choice |-> "none"]

\* __init__, lines 29-36
Init ==
  /\ pc = "start"
  /\ history = <<>>
  /\ tool_definitions = None
  /\ conn = "absent"
  /\ acloseCount = 0
  /\ releaseCount = 0
  /\ fetchCount = 0
  /\ user_input = None
  /\ console = None
  /\ llmRequest = NoRequest
  /\ llmInFlight = FALSE
  /\ llmTotal = 0
  /\ llmCount = 0
  /\ respCount = 0
  /\ responses = <<>>
  /\ failedAt = 0
  /\ rounds = 0
  /\ preHistory = <<>>
  /\ outcome = "none"
  /\ ret = None
  /\ response_message = NoMessage
  /\ callIdx = 0
  /\ tool_calls_to_append = <<>>
  /\ toolInFlight = {}
  /\ invoked = <<>>
  /\ returned = <<>>
  /\ turnBase = 0


\* ------------------------------------------------------------ list methods
\* list.pop(): the list without its last element
popFirst(h) == SubSeq(h, 2, Len(h))

popTwo(h) == SubSeq(h, 1, Len(h) - 2)

pop(h) == SubSeq(h, 1, Len(h) - 1)

\* line 79
UserMessage(q) == [role |-> "user", content |-> q, tool_calls |-> <<>>]

\* line 71
SystemMessage == [role |-> "system", content |-> system_prompt, tool_calls |-> <<>>]

\* lines 84-89: the arguments of chat.completions.create
LLMRequestNoTools(h, defs) ==
  [model |-> MODEL_NAME, messages |-> h, tools |-> <<>>, tool_choice |-> "auto"]

LLMRequest(h, defs) ==
  [model |-> MODEL_NAME, messages |-> h, tools |-> defs, tool_choice |-> "auto"]

\* lines 123-127: the entry recorded for one executed call
ResultEntryFirstId(calls, k, text) ==
  [tool_call_id |-> calls[1].id,
   function |-> [name |-> calls[k].function.name],
   content |-> text]

ResultEntry(calls, k, text) ==
  [tool_call_id |-> calls[k].id,
   function |-> [name |-> calls[k].function.name],
   content |-> text]

\* line 123: tool_calls_to_append.append(entry)
DropResult(acc, entry) == acc

AppendResult(acc, entry) == Append(acc, entry)

\* lines 132-135: the tool-role message holding the results of the turn
ToolMessage(results) == [role |-> "tool", content |-> None, tool_calls |-> results]

\* lines 130-135: the request message, then the one message with the results
AppendRoundResultsFirst(h, msg, results) ==
  Append(Append(h, ToolMessage(results)), msg)

AppendRoundRequestOnly(h, msg, results) == Append(h, msg)

AppendRound(h, msg, results) == Append(Append(h, msg), ToolMessage(results))

\* line 146
KeepHistory(h, msg) == h

AppendFinal(h, msg) == Append(h, msg)

\* lines 100, 108: the calls awaited once the for loop reaches request k
InvokeAll(calls, k) == k..Len(calls)

InvokeCalls(calls, k) == {k}

\* --------------------------------------------- run_interactive_session ends
\* line 169: finally, await self.exit_stack.aclose()
FinallyMissing ==
  /\ pc' = "done"
  /\ UNCHANGED <<acloseCount, conn, releaseCount>>

Finally ==
  /\ pc' = "done"
  /\ acloseCount' = acloseCount + 1
  /\ conn' = IF conn = "open" THEN "closed" ELSE conn
  /\ releaseCount' = IF conn = "open" THEN releaseCount + 1 ELSE releaseCount

\* ---------------------------------------------------------------- initialize
\* lines 43-56: the provider connection is entered on the exit stack, or
\* stdio_client fails (the provider does not start, the handshake times out)
Connect ==
  /\ pc = "start"
  /\ \E ok \in BOOLEAN :
       IF ok
       THEN /\ pc' = "connected"
            /\ conn' = "open"
            /\ UNCHANGED <<acloseCount, releaseCount>>
       ELSE Finally
  /\ UNCHANGED <<history, tool_definitions, fetchCount, user_input, console,
                 llmRequest, llmInFlight, llmTotal, queryVars, turnVars>>

\* lines 59-73: the catalog is fetched and the system message appended, or
\* session.tools() raises
FetchTools ==
  /\ pc = "connected"
  /\ fetchCount' = fetchCount + 1
  /\ \/ /\ Finally
        /\ UNCHANGED <<history, tool_definitions>>
     \/ \E tools \in ProviderCatalogs :
          /\ tool_definitions' = FetchCatalog(tools)
          /\ history' = Append(history, SystemMessage)
          /\ pc' = "input"
          /\ UNCHANGED <<conn, acloseCount, releaseCount>>
  /\ UNCHANGED <<user_input, console, llmRequest, llmInFlight, llmTotal,
                 queryVars, turnVars>>

\* ------------------------------------------------- run_interactive_session
IsExit(line) == lower(line) \in ExitCommands

IsQuery(line) == ~IsExit(line) /\ strip(line) # <<>>

\* line 159: input() returns a line
ReadLine ==
  /\ pc = "input"
  /\ \E line \in Lines :
       /\ IsQuery(line) => llmTotal < MaxRequests
       /\ user_input' = line
  /\ pc' = "line"
  /\ UNCHANGED <<history, sessionVars, console, llmRequest, llmInFlight,
                 llmTotal, queryVars, turnVars>>

\* line 159: input() raises (EOFError, KeyboardInterrupt)
InputRaises ==
  /\ pc = "input"
  /\ Finally
  /\ UNCHANGED <<history, tool_definitions, fetchCount, user_input, console,
                 llmRequest, llmInFlight, llmTotal, queryVars, turnVars>>

\* lines 79-89: process_user_query(q) up to its first await
StartQuery(q) ==
  /\ preHistory' = history
  /\ history' = Append(history, UserMessage(q))
  /\ llmRequest' = LLMRequest(history', tool_definitions)
  /\ llmInFlight' = TRUE
  /\ llmTotal' = llmTotal + 1
  /\ llmCount' = 1
  /\ respCount' = 0
  /\ responses' = <<>>
  /\ failedAt' = 0
  /\ rounds' = 0
  /\ outcome' = "none"
  /\ ret' = None
  /\ pc' = "llm"

\* lines 160-165: the line is an exit command, a query or blank
HandleLine ==
  /\ pc = "line"
  /\ IF lower(user_input) \in ExitCommands
     THEN /\ Finally
          /\ UNCHANGED <<history, llmRequest, llmInFlight, llmTotal, queryVars>>
     ELSE IF strip(user_input) # <<>>
          THEN /\ StartQuery(strip(user_input))
               /\ UNCHANGED <<conn, acloseCount, releaseCount>>
          ELSE /\ pc' = "input"
               /\ UNCHANGED <<history, llmRequest, llmInFlight, llmTotal,
                              queryVars, conn, acloseCount, releaseCount>>
  /\ UNCHANGED <<tool_definitions, fetchCount, user_input, console, turnVars>>

\* ------------------------------------------------------- process_user_query
\* the locals of process_user_query are gone when it returns
DropLocals ==
  /\ response_message' = NoMessage
  /\ callIdx' = 0
  /\ tool_calls_to_append' = <<>>
  /\ toolInFlight' = {}
  /\ invoked' = <<>>
  /\ returned' = <<>>
  /\ turnBase' = 0

\* lines 149-152: the exception is reported, the last message of the
\* transcript is removed, and process_user_query returns
ExceptHandlerKeepsRound(kind) ==
  /\ history' = Append(pop(history), response_message)
                 \o [i \in 1..Len(tool_calls_to_append) |->
                       ToolMessage(<<tool_calls_to_append[i]>>)]
  /\ outcome' = kind
  /\ ret' = None
  /\ pc' = "input"
  /\ llmInFlight' = FALSE
  /\ DropLocals
  /\ UNCHANGED <<llmRequest, llmTotal, llmCount, rounds, preHistory>>

ExceptHandlerRetry(kind) ==
  /\ history' = history
  /\ outcome' = kind
  /\ ret' = None
  /\ pc' = "llm"
  /\ llmInFlight' = TRUE
  /\ llmTotal' = llmTotal + 1
  /\ llmCount' = llmCount + 1
  /\ DropLocals
  /\ UNCHANGED <<llmRequest, rounds, preHistory>>

ExceptHandler(kind) ==
  /\ history' = pop(history)
  /\ outcome' = kind
  /\ ret' = None
  /\ pc' = "input"
  /\ llmInFlight' = FALSE
  /\ DropLocals
  /\ UNCHANGED <<llmRequest, llmTotal, llmCount, rounds, preHistory>>

\* lines 81-152: the step at request k (0: the LLM request) raises and the
\* except clause runs
Raise(kind, k) ==
  /\ ExceptHandler(kind)
  /\ failedAt' = k
  /\ responses' = <<>>

\* line 82: the condition of the while loop, after the given number of
\* tool-call rounds
LoopConditionBounded(iterations) == iterations < 2

LoopCondition(iterations) == TRUE

\* lines 100-111: the for loop reaches request k with the results acc
\* collected so far: its arguments are parsed and call_tool is awaited, or
\* parsing raises
EnterCall(msg, k, acc, outputs) ==
  IF ArgsAccepted(msg.tool_calls[k])
  THEN /\ pc' = "tool"
       /\ response_message' = msg
       /\ callIdx' = k
       /\ tool_calls_to_append' = acc
       /\ toolInFlight' = InvokeCalls(msg.tool_calls, k)
       /\ invoked' = IF k = 1 THEN <<1>> ELSE Append(invoked, k)
       /\ returned' = outputs
       /\ llmInFlight' = FALSE
       /\ responses' = IF k = 1 THEN Append(responses, msg) ELSE responses
       /\ UNCHANGED <<history, llmRequest, llmTotal, llmCount, rounds,
                      preHistory, outcome, ret, turnBase, failedAt>>
  ELSE Raise("parse_error", k)

\* line 84: the LLM request raises
LLMRaises ==
  /\ pc = "llm"
  /\ Raise("llm_error", 0)
  /\ UNCHANGED <<sessionVars, user_input, console, respCount>>

\* lines 91-94, 142-147: the response requests no tool call
LLMFinalAnswer ==
  /\ pc = "llm"
  /\ \E text \in AnswerTexts :
       LET msg == AssistantMessage(text, <<>>)
       IN /\ history' = AppendFinal(history, msg)
          /\ console' = msg.content
          /\ responses' = Append(responses, msg)
  /\ respCount' = respCount + 1
  /\ outcome' = "ok"
  /\ ret' = None
  /\ pc' = "input"
  /\ llmInFlight' = FALSE
  /\ DropLocals
  /\ UNCHANGED <<sessionVars, user_input, llmRequest, llmTotal, llmCount,
                 rounds, preHistory, failedAt>>

\* lines 91-111: the response requests tool calls; the for loop starts
LLMToolCalls ==
  /\ pc = "llm"
  /\ llmTotal < MaxRequests
  /\ \E calls \in ToolCallLists :
       EnterCall(AssistantMessage(None, calls), 1, <<>>, <<>>)
  /\ respCount' = respCount + 1
  /\ UNCHANGED <<sessionVars, user_input, console>>

\* line 108: call_tool raises
ToolRaises ==
  /\ pc = "tool"
  /\ Raise("tool_error", callIdx)
  /\ UNCHANGED <<sessionVars, user_input, console, respCount>>

\* lines 108-139: call_tool returns; the result is unwrapped, serialized
\* and collected; the loop goes on to the next request or, after the last
\* one, the round is appended to the transcript and the LLM is asked again
ToolReturns ==
  /\ pc = "tool"
  /\ \E tool_output \in ToolOutputs :
       LET calls == response_message.tool_calls
           dumped == json_dumps(Unwrap(tool_output))
           acc == AppendResult(tool_calls_to_append,
                               ResultEntry(calls, callIdx, dumped.text))
       IN IF ~dumped.ok
          THEN Raise("dumps_error", callIdx)
          ELSE IF callIdx < Len(calls)
               THEN EnterCall(response_message, callIdx + 1, acc,
                              Append(returned, tool_output))
               ELSE /\ history' = AppendRound(history, response_message, acc)
                    /\ rounds' = rounds + 1
                    /\ IF LoopCondition(rounds + 1)
                       THEN /\ turnBase' = Len(history)
                            /\ tool_calls_to_append' = acc
                            /\ returned' = Append(returned, tool_output)
                            /\ toolInFlight' = {}
                            /\ llmRequest' = LLMRequest(history', tool_definitions)
                            /\ llmInFlight' = TRUE
                            /\ llmTotal' = llmTotal + 1
                            /\ llmCount' = llmCount + 1
                            /\ pc' = "llm"
                            /\ UNCHANGED <<response_message, callIdx, invoked,
                                           outcome, ret>>
                       ELSE /\ outcome' = "loop_exit"
                            /\ ret' = None
                            /\ pc' = "input"
                            /\ DropLocals
                            /\ UNCHANGED <<llmRequest, llmInFlight, llmTotal,
                                           llmCount>>
                    /\ UNCHANGED <<preHistory, responses, failedAt>>
  /\ UNCHANGED <<sessionVars, user_input, console, respCount>>

\* lines 84, 108: the awaited call is cancelled (KeyboardInterrupt,
\* CancelledError): no except clause catches it and only the finally runs
Interrupt ==
  /\ pc \in {"llm", "tool"}
  /\ Finally
  /\ outcome' = "interrupted"
  /\ llmInFlight' = FALSE
  /\ toolInFlight' = {}
  /\ UNCHANGED <<history, tool_definitions, fetchCount, user_input, console,
                 llmRequest, llmTotal, llmCount, respCount, rounds,
                 preHistory, ret, response_message, callIdx,
                 tool_calls_to_append, invoked, returned, turnBase,
                 responses, failedAt>>

Next ==
  \/ Connect
  \/ FetchTools
  \/ ReadLine
  \/ InputRaises
  \/ HandleLine
  \/ LLMRaises
  \/ LLMFinalAnswer
  \/ LLMToolCalls
  \/ ToolRaises
  \/ ToolReturns
  \/ Interrupt

Spec == Init /\ [][Next]_vars

\* ===================================================================
\* Properties
\* ===================================================================

\* the last query ended in the except clause of process_user_query
Failed == outcome \in {"llm_error", "parse_error", "tool_error", "dumps_error"}

\* the messages of h with the given role
RoleCount(h, role) == Cardinality({i \in 1..Len(h) : h[i].role = role})

\* a round has just been appended and the next LLM request is awaited
RoundAppended == pc = "llm" /\ rounds >= 1

\* the messages the last round appended
TurnMessages == SubSeq(history, turnBase + 1, Len(history))

\* C1: after a query failed and the failure was handled, the transcript is
\* the transcript before the query was submitted, whatever the point of the
\* failure (LLM request, argument parsing, tool invocation; first or later
\* iteration).
C1_RollbackRestoresTranscript == Failed => history = preHistory

\* C2 as stated: a query whose responses end with one that requests no tool
\* call makes one LLM request per response, ends, has that message as the
\* last message of the transcript and returns its text.
C2_ReturnsFinalText ==
  outcome = "ok" =>
    /\ llmCount = respCount
    /\ history[Len(history)].role = "assistant"
    /\ ret = history[Len(history)].content

\* C2 amended: such a query makes one LLM request per response (one more
\* than its tool-call rounds), ends with no request in flight, has the final
\* message as the last message of the transcript, prints that message's text
\* and returns None.
C2_PrintsFinalText ==
  outcome = "ok" =>
    /\ llmCount = respCount
    /\ llmCount = rounds + 1
    /\ pc \in {"input", "line", "done"}
    /\ ~llmInFlight /\ toolInFlight = {}
    /\ Len(history) = Len(preHistory) + 2 + 2 * rounds
    /\ history[Len(history)].role = "assistant"
    /\ history[Len(history)].tool_calls = <<>>
    /\ history[Len(history)].content \in AnswerTexts
    /\ console = history[Len(history)].content
    /\ ret = None

C2_Witness ==
  /\ outcome = "ok"
  /\ rounds = 1
  /\ llmCount = 2
  /\ console = <<"X", " ", "i", "s">>

\* C3: a response that requests n >= 1 tool calls which all succeed appends
\* n tool-role messages to the transcript, one per request.
C3_OneToolMessagePerRequest ==
  RoundAppended =>
    RoleCount(TurnMessages, "tool") = Len(response_message.tool_calls)

\* C4: the results recorded in the transcript for a turn whose calls all
\* succeeded are in the order of the requests, the i-th is tagged with the
\* identifier of the i-th request and its content is the JSON text of the
\* payload the provider returned for it.
C4_ResultsInRequestOrder ==
  RoundAppended =>
    LET calls == response_message.tool_calls
        results == history[Len(history)].tool_calls
    IN /\ history[Len(history)].role = "tool"
       /\ history[Len(history) - 1] = response_message
       /\ Len(results) = Len(calls)
       /\ Len(returned) = Len(calls)
       /\ \A i \in 1..Len(calls) :
            /\ results[i].tool_call_id = calls[i].id
            /\ results[i].function.name = calls[i].function.name
            /\ results[i].content = json_dumps(returned[i].payload).text

C4_Witness ==
  /\ RoundAppended
  /\ Len(response_message.tool_calls) = 2
  /\ response_message.tool_calls[1].id = "call_b"
  /\ response_message.tool_calls[2].id = "call_a"
  /\ returned[1].isMessage /\ ~returned[2].isMessage
  /\ history[Len(history)].tool_calls[1].tool_call_id = "call_b"
  /\ history[Len(history)].tool_calls[1].content = <<"4", "2">>
  /\ history[Len(history)].tool_calls[2].tool_call_id = "call_a"
  /\ history[Len(history)].tool_calls[2].content = <<"\"", "d", "\"">>

\* C5: within a turn call_tool is invoked for the requests in response
\* order, at most one call is in flight, request K+1 is invoked only after
\* the call for request K returned, and no LLM request is in flight while a
\* tool call is.
C5_SequentialCalls ==
  /\ Cardinality(toolInFlight) <= 1
  /\ ~(llmInFlight /\ toolInFlight # {})
  /\ \A i \in 1..Len(invoked) : invoked[i] = i
  /\ pc = "tool" =>
       /\ toolInFlight = {callIdx}
       /\ Len(invoked) = callIdx
       /\ Len(returned) = callIdx - 1
       /\ ~llmInFlight
  /\ pc = "llm" => llmInFlight /\ toolInFlight = {}

C5_Witness ==
  /\ pc = "tool"
  /\ callIdx = 2
  /\ invoked = <<1, 2>>
  /\ Len(returned) = 1

\* the transcript holds a result tagged with the identifier id among the
\* messages appended since the current query was submitted
ResultInTranscript(id) ==
  \E i \in (Len(preHistory) + 1)..Len(history) :
    /\ history[i].role = "tool"
    /\ \E j \in 1..Len(history[i].tool_calls) :
         history[i].tool_calls[j].tool_call_id = id

\* C6 as stated: when call K+1 of a turn is invoked the transcript holds the
\* result of call K.
C6_ResultInTranscriptBeforeNextCall ==
  (pc = "tool" /\ callIdx >= 2) =>
    ResultInTranscript(response_message.tool_calls[callIdx - 1].id)

\* C6 amended: when call K+1 of a turn is invoked the results of the calls
\* 1..K are held, in order, in the turn's result list; the transcript is
\* still the one the LLM was sent and receives the results only after the
\* last call of the turn returned.
C6_ResultCollectedBeforeNextCall ==
  pc = "tool" =>
    /\ Len(tool_calls_to_append) = callIdx - 1
    /\ \A i \in 1..(callIdx - 1) :
         /\ i <= Len(tool_calls_to_append)
         /\ tool_calls_to_append[i].tool_call_id = response_message.tool_calls[i].id
         /\ tool_calls_to_append[i].content = json_dumps(returned[i].payload).text
    /\ history = llmRequest.messages

C6_Witness ==
  /\ pc = "tool"
  /\ callIdx = 2
  /\ Len(tool_calls_to_append) = 1
  /\ tool_calls_to_append[1].tool_call_id = "call_a"
  /\ tool_calls_to_append[1].content = <<"\"", "d", "\"">>
  /\ ~ResultInTranscript("call_a")

C8_ConnectionReleasedOnce ==
  /\ [](/\ pc = "done" =>
             /\ acloseCount = 1
             /\ conn # "open"
             /\ releaseCount = IF conn = "closed" THEN 1 ELSE 0
        /\ pc # "done" =>
             /\ acloseCount = 0
             /\ releaseCount = 0
             /\ conn # "closed"
        /\ pc \in {"input", "line", "llm", "tool"} => conn = "open")
  /\ [][pc # "done"]_vars

C8_Witness ==
  /\ pc = "done"
  /\ outcome = "interrupted"
  /\ conn = "closed"
  /\ releaseCount = 1

\* the text holds nothing but whitespace
OnlyWhitespace(s) == \A i \in 1..Len(s) : s[i] \in Whitespace

\* C9: a line of whitespace only (or the empty line) makes no LLM request
\* and no tool call, leaves the transcript unchanged and leads back to
\* awaiting input; no query that is empty after trimming reaches the agent
\* loop.
C9_BlankLineIgnored ==
  /\ [](\A i \in 1..Len(history) :
          history[i].role = "user" => ~OnlyWhitespace(history[i].content))
  /\ [][(pc = "line" /\ OnlyWhitespace(user_input)) =>
          /\ pc' = "input"
          /\ history' = history
          /\ llmTotal' = llmTotal
          /\ llmRequest' = llmRequest
          /\ llmInFlight' = llmInFlight
          /\ toolInFlight' = toolInFlight
          /\ invoked' = invoked]_vars

C9_Witness ==
  /\ pc = "line"
  /\ user_input = <<"\t", " ">>
  /\ Len(history) >= 3

\* C10: after a failed query every message that was in the transcript when
\* the query was submitted is still there, at the same position and with
\* the same content.
C10_EarlierMessagesKept ==
  Failed =>
    /\ Len(history) >= Len(preHistory)
    /\ \A i \in 1..Len(preHistory) :
         i <= Len(history) /\ history[i] = preHistory[i]

C10_Witness ==
  /\ Failed
  /\ Len(preHistory) >= 3
  /\ rounds >= 1

\* the states of the session driver
Idle == pc \in {"start", "connected"}
AwaitingInput == pc \in {"input", "line"}
Processing == pc \in {"llm", "tool"}
ShuttingDown == pc = "done"

\* the line is exit or quit in any mix of upper and lower case
IsExitCommand(line) ==
  /\ Len(line) = 4
  /\ \/ /\ line[1] \in {"e", "E"} /\ line[2] \in {"x", "X"}
        /\ line[3] \in {"i", "I"} /\ line[4] \in {"t", "T"}
     \/ /\ line[1] \in {"q", "Q"} /\ line[2] \in {"u", "U"}
        /\ line[3] \in {"i", "I"} /\ line[4] \in {"t", "T"}

\* C11 as stated: the driver takes only the transitions of the state
\* machine: AwaitingInput to Processing on a non-empty line that is no exit
\* command, Processing back to AwaitingInput and nowhere else, AwaitingInput
\* to ShuttingDown only on an exit or quit command, initialization error to
\* ShuttingDown before any input is read, and ShuttingDown is terminal.
C11_OnlyStatedTransitions ==
  [][/\ (Idle /\ ~Idle') => (AwaitingInput' \/ (ShuttingDown' /\ user_input = None))
     /\ (AwaitingInput /\ Processing') =>
          /\ pc = "line"
          /\ ~OnlyWhitespace(user_input)
          /\ ~IsExitCommand(user_input)
     /\ (AwaitingInput /\ ShuttingDown') =>
          /\ pc = "line"
          /\ IsExitCommand(user_input)
     /\ (AwaitingInput /\ ~AwaitingInput') => (Processing' \/ ShuttingDown')
     /\ (Processing /\ ~Processing') => AwaitingInput'
     /\ ~ShuttingDown]_vars

\* C11 amended: as stated, except that AwaitingInput also goes to
\* ShuttingDown when reading the input raises, and Processing goes to
\* ShuttingDown when the awaited call is interrupted by an exception the
\* except clause of process_user_query does not catch; a query that
\* succeeded or whose failure was handled leads back to AwaitingInput, and
\* an exit command is never dispatched as a query.
C11_DriverTransitions ==
  [][/\ (Idle /\ ~Idle') => (AwaitingInput' \/ (ShuttingDown' /\ user_input = None))
     /\ (AwaitingInput /\ Processing') =>
          /\ pc = "line"
          /\ ~OnlyWhitespace(user_input)
          /\ ~IsExitCommand(user_input)
     /\ (AwaitingInput /\ ShuttingDown') =>
          \/ pc = "line" /\ IsExitCommand(user_input)
          \/ pc = "input"
     /\ (pc = "line" /\ IsExitCommand(user_input)) =>
          /\ ShuttingDown'
          /\ history' = history
          /\ llmTotal' = llmTotal
     /\ (AwaitingInput /\ ~AwaitingInput') => (Processing' \/ ShuttingDown')
     /\ (Processing /\ ~Processing') =>
          \/ AwaitingInput' /\ (outcome' = "ok" \/ Failed')
          \/ ShuttingDown' /\ outcome' = "interrupted"
     /\ (Processing /\ (outcome' = "ok" \/ Failed')) => pc' = "input"
     /\ ~ShuttingDown]_vars

C11_Witness ==
  /\ pc = "done"
  /\ user_input = <<"Q", "U", "I", "T">>
  /\ Failed
  /\ acloseCount = 1

\* C12: a failure is handled once and nothing is retried: the failing step
\* removes one message and returns to the driver with no request and no call
\* in flight, no request after the failing one was invoked, and no LLM
\* request is made for the query afterwards.
C12_NoRetryAfterFailure ==
  /\ [](Failed =>
          /\ pc \in {"input", "line", "done"}
          /\ ~llmInFlight
          /\ toolInFlight = {}
          /\ llmCount = respCount + (IF outcome = "llm_error" THEN 1 ELSE 0)
          /\ (failedAt = 0) = (outcome = "llm_error"))
  /\ [][(outcome = "none" /\ Failed') =>
          /\ pc' = "input"
          /\ Len(history') = Len(history) - 1
          /\ llmTotal' = llmTotal
          /\ llmCount' = llmCount
          /\ (pc = "tool" => Len(invoked) <= failedAt')
          /\ (pc = "llm" => failedAt' <= 1)]_vars
  /\ [][(Failed /\ Failed') =>
          /\ llmTotal' = llmTotal
          /\ llmCount' = llmCount
          /\ history' = history]_vars

C12_Witness ==
  /\ Failed
  /\ outcome = "tool_error"
  /\ failedAt = 1
  /\ rounds = 1
  /\ llmCount = 2
  /\ pc = "line"

\* the message m holds a tool-call request with the identifier id
RequestsId(m, id) ==
  /\ m.role = "assistant"
  /\ \E l \in 1..Len(m.tool_calls) : m.tool_calls[l].id = id

\* C13: every tool-result entry of the transcript carries the identifier of
\* a tool-call request of an assistant message earlier in the transcript.
C13_ResultIdsMatchEarlierRequest ==
  \A i \in 1..Len(history) :
    history[i].role = "tool" =>
      /\ Len(history[i].tool_calls) >= 1
      /\ \A j \in 1..Len(history[i].tool_calls) :
           \E k \in 1..(i - 1) :
             RequestsId(history[k], history[i].tool_calls[j].tool_call_id)

C13_Witness ==
  /\ Failed
  /\ Len(history) = 5
  /\ history[4].role = "tool"
  /\ Len(history[4].tool_calls) = 2
  /\ history[4].tool_calls[2].tool_call_id = "call_a"
  /\ RequestsId(history[3], "call_a")

\* the message at position i is followed by the results answering every one
\* of its requests
AnsweredAt(i) ==
  /\ i < Len(history)
  /\ history[i + 1].role = "tool"
  /\ Len(history[i + 1].tool_calls) = Len(history[i].tool_calls)
  /\ \A j \in 1..Len(history[i].tool_calls) :
       history[i + 1].tool_calls[j].tool_call_id = history[i].tool_calls[j].id

\* C14: after a query was handled, successfully or not, every assistant
\* message with tool-call requests is immediately followed by the results
\* answering all of them, and the transcript holds no user message of a
\* failed query.
C14_TranscriptConsistent ==
  (outcome = "ok" \/ Failed) =>
    /\ \A i \in 1..Len(history) :
         (history[i].role = "assistant" /\ history[i].tool_calls # <<>>) =>
           AnsweredAt(i)
    /\ Failed =>
         \A i \in (Len(preHistory) + 1)..Len(history) : history[i].role # "user"

\* C15: after a successful query with k >= 0 rounds the transcript is the
\* transcript before the query, then the user message, then for each round
\* in response order the request message immediately followed by the
\* results of that round, then the final answer; one round of one call adds
\* four messages.
C15_SuccessfulQueryTranscript ==
  outcome = "ok" =>
    LET base == Len(preHistory)
    IN /\ Len(responses) = rounds + 1
       /\ Len(history) = base + 2 + 2 * rounds
       /\ SubSeq(history, 1, base) = preHistory
       /\ history[base + 1].role = "user"
       /\ \A r \in 1..rounds :
            /\ history[base + 2 * r] = responses[r]
            /\ responses[r].tool_calls # <<>>
            /\ AnsweredAt(base + 2 * r)
       /\ history[Len(history)] = responses[rounds + 1]
       /\ responses[rounds + 1].role = "assistant"
       /\ responses[rounds + 1].tool_calls = <<>>
       /\ (rounds = 1 /\ Len(responses[1].tool_calls) = 1) =>
            Len(history) = base + 4

C15_Witness ==
  /\ outcome = "ok"
  /\ preHistory = <<SystemMessage>>
  /\ rounds = 1
  /\ Len(responses[1].tool_calls) = 1
  /\ Len(history) = 5
  /\ history[2].role = "user"
  /\ history[3] = responses[1]
  /\ history[4].role = "tool"
  /\ history[5].content = <<"X", " ", "i", "s">>

\* C16: the loop has no iteration bound: after every completed round,
\* whatever their number, the next LLM request is made, and a query ends
\* only with a final answer, a failure or an interruption; a single query
\* makes as many LLM requests as the LLM answers with tool calls.
C16_LoopUnbounded ==
  /\ [](/\ Processing => llmCount = rounds + 1
        /\ outcome \in {"none", "ok", "interrupted", "llm_error",
                        "parse_error", "tool_error", "dumps_error"})
  /\ [][(pc = "tool" /\ rounds' = rounds + 1) =>
          /\ pc' = "llm"
          /\ llmInFlight'
          /\ llmCount' = llmCount + 1
          /\ llmRequest'.messages = history']_vars

C16_Witness ==
  /\ pc = "llm"
  /\ llmCount = MaxRequests
  /\ rounds = MaxRequests - 1
  /\ Len(history) = 2 + 2 * rounds

\* the session was initialized: initialize set the catalog
Initialized == tool_definitions # None

\* C17: once initialization succeeded the transcript is never empty, its
\* first message is the system message of initialize and it holds no other
\* system message, whatever queries, failures and rollbacks follow.
C17_SystemMessageKept ==
  Initialized =>
    /\ Len(history) >= 1
    /\ history[1] = SystemMessage
    /\ RoleCount(history, "system") = 1

C17_Witness ==
  /\ Initialized
  /\ Failed
  /\ history = <<SystemMessage>>
  /\ llmTotal = 2

\* the last query failed at a tool-call request (parsing, invocation or
\* serialization of the result)
FailedInTurn == outcome \in {"parse_error", "tool_error", "dumps_error"}

\* C18: a round is appended all or nothing: after a failure at request K of
\* a turn the transcript holds nothing of that turn, neither its request
\* message nor a result of the calls 1..K-1: it is a proper prefix of the
\* transcript the LLM was sent for that turn.
C18_RoundAllOrNothing ==
  /\ [](FailedInTurn =>
          /\ failedAt >= 1
          /\ Len(history) < Len(llmRequest.messages)
          /\ history = SubSeq(llmRequest.messages, 1, Len(history)))
  /\ [][(outcome = "none" /\ FailedInTurn') =>
          /\ history = llmRequest.messages
          /\ Len(history') = Len(history) - 1
          /\ history' = SubSeq(history, 1, Len(history'))]_vars
  /\ [][(FailedInTurn /\ FailedInTurn') => history' = history]_vars

C18_Witness ==
  /\ FailedInTurn
  /\ failedAt = 2
  /\ outcome = "dumps_error"
  /\ rounds = 0
  /\ history = <<SystemMessage>>

====
